---- MODULE Spec2Model ----
(***************************************************************************)
(* Float2QB: import of a Float CSV export into QuickBooks.                 *)
(* The model follows src/Float2QB.py: ProcessFile reads the batch, detects *)
(* its kind, verifies the header (VerifyCSVKeys), validates every record   *)
(* against the lists loaded from QuickBooks (PreCheck), builds one add     *)
(* request per record (ProcessTransactions / ProcessReimbursements),       *)
(* submits the request set once (DoRequests) and walks the responses       *)
(* (WalkRs).  Amounts are kept in cents.                                   *)
(***************************************************************************)
EXTENDS Integers, Sequences, FiniteSets, TLC

VARIABLES
    transactions,   \* the batch after KeysLower: a sequence of key -> text maps
    pc,             \* position of ProcessFile
    reimbursement,  \* ProcessFile.reimbursement
    maxSplits,      \* ProcessFile.maxSplits (0 stands for None)
    errors,         \* what Error() has logged, in order
    echoed,         \* what click.echo has printed, in order
    requestMsgSet,  \* the add requests appended so far
    count,          \* the count of the running Process* call
    i,              \* index of the record the build loop is at
    respMsgSet,     \* the response set DoRequests returned
    r,              \* index of the response WalkRs is at
    Success,        \* WalkRs.Success
    fetches,        \* number of LoadListsFromQB round trips so far
    submits,        \* number of batch DoRequests round trips so far
    result,         \* how ProcessFile ended
    offerDelete     \* the delete prompt has been reached

vars == <<transactions, pc, reimbursement, maxSplits, errors, echoed,
          requestMsgSet, count, i, respMsgSet, r, Success, fetches, submits,
          result, offerDelete>>

\* ---------------------------------------------------------------- bounds
MaxRecords == 2
MaxSplits == 2

\* ------------------------------------------------ the QuickBooks company
\* Active accounts and vendors of the company file LoadListsFromQB queries.
QBAccounts == {"A1", "A2"}
QBVendors == {"Acme"}

\* ----------------------------------------------------------- CSV columns
LineItemKey(n, field) == "line item " \o ToString(n) \o " " \o field

SplitFields == {"gl code id", "description", "amount", "tax amount"}

SplitKeys(n) == {LineItemKey(k, f) : k \in 1..n, f \in SplitFields}

ReimbursementKeys ==
    {"description", "expense date", "total", "subtotal", "tax", "requester",
     "gl code id"}

TransactionKeys ==
    {"description", "transaction date", "accounting vendor name",
     "total dollars", "transaction subtotal dollars",
     "transaction tax dollars", "gl code id"}

\* required_keys with the subtotal and the single account id asked only
\* of batches without splits.
RequiredKeys_SplitWithoutSingle(reimb, ms) ==
    IF reimb THEN ReimbursementKeys
    ELSE IF ms # 0
         THEN (TransactionKeys \ {"transaction subtotal dollars", "gl code id"})
              \cup SplitKeys(ms)
         ELSE TransactionKeys

\* VerifyCSVKeys.required_keys
RequiredKeys(reimb, ms) ==
    IF reimb THEN ReimbursementKeys
    ELSE TransactionKeys \cup (IF ms # 0 THEN SplitKeys(ms) ELSE {})

\* ------------------------------------------------------- text conversions
\* float(): the amount texts of the model and what Python's float() makes
\* of them, in cents; ok = FALSE is ValueError.
Float(s) ==
    CASE s = "0"       -> [ok |-> TRUE, val |-> 0]
      [] s = "40.00"   -> [ok |-> TRUE, val |-> 4000]
      [] s = "45.00"   -> [ok |-> TRUE, val |-> 4500]
      [] s = "5.00"    -> [ok |-> TRUE, val |-> 500]
      [] s = "-150.00" -> [ok |-> TRUE, val |-> -15000]
      [] s = "-7.50"   -> [ok |-> TRUE, val |-> -750]
      [] s = "-157.50" -> [ok |-> TRUE, val |-> -15750]
      [] OTHER         -> [ok |-> FALSE, val |-> 0]

\* datetime.strptime with the format of the batch kind; ok = FALSE is
\* ValueError.
TransactionDateText == "2024-01-05 10:00:00.000000+0000"
ReimbursementDateText == "05/01/2024"

Strptime(s, reimb) ==
    IF reimb
    THEN IF s = ReimbursementDateText
         THEN [ok |-> TRUE, val |-> <<2024, 1, 5>>]
         ELSE [ok |-> FALSE, val |-> <<>>]
    ELSE IF s = TransactionDateText
         THEN [ok |-> TRUE, val |-> <<2024, 1, 5, 10, 0, 0>>]
         ELSE [ok |-> FALSE, val |-> <<>>]

\* str.strip()
Strip(s) == IF s = " Taxi " THEN "Taxi" ELSE s

\* ------------------------------------------------------------ the inputs
\* Date, total, subtotal and tax texts of a row.  The second date text is
\* the other batch kind's format, so it fails this kind's strptime.
Profiles ==
    {<<"good", "40.00", "40.00", "0">>,
     <<"good", "45.00", "40.00", "5.00">>,
     <<"good", "-150.00", "-150.00", "0">>,
     <<"good", "-157.50", "-150.00", "-7.50">>,
     <<"good", "N/A", "N/A", "0">>,
     <<"good", "45.00", "40.00", "N/A">>,
     <<"bad", "40.00", "40.00", "0">>}

DateText(quality, reimb) ==
    IF (quality = "good") = reimb THEN ReimbursementDateText
    ELSE TransactionDateText

VendorTexts == {"Acme", "Bogus"}
AccountTexts == {"A1", "X9"}

BlankSlot == [gl |-> "", amt |-> ""]

\* A row of a standard export: slots is a function from 1..n to the gl code
\* id and amount of each "line item" column group (n = 0: no such columns).
MkTransaction(vendor, gl, p, n, slots) ==
    [k \in TransactionKeys \cup SplitKeys(n) |->
        CASE k = "description" -> "Lunch"
          [] k = "transaction date" -> DateText(p[1], FALSE)
          [] k = "accounting vendor name" -> vendor
          [] k = "total dollars" -> p[2]
          [] k = "transaction subtotal dollars" -> p[3]
          [] k = "transaction tax dollars" -> p[4]
          [] k = "gl code id" -> gl
          [] OTHER ->
               LET s == CHOOSE j \in 1..n :
                            \E f \in SplitFields : k = LineItemKey(j, f)
               IN  CASE k = LineItemKey(s, "gl code id") -> slots[s].gl
                     [] k = LineItemKey(s, "amount") -> slots[s].amt
                     [] k = LineItemKey(s, "description") -> "Part"
                     [] OTHER -> ""]

\* A row of a reimbursement export.
MkReimbursement(vendor, gl, p) ==
    [k \in ReimbursementKeys \cup {"report name"} |->
        CASE k = "description" -> " Taxi "
          [] k = "expense date" -> DateText(p[1], TRUE)
          [] k = "requester" -> vendor
          [] k = "total" -> p[2]
          [] k = "subtotal" -> p[3]
          [] k = "tax" -> p[4]
          [] k = "gl code id" -> gl
          [] OTHER -> "March expenses"]

NoSlots == [j \in {} |-> BlankSlot]

PlainRecords ==
    {MkTransaction(v, g, p, 0, NoSlots) :
        v \in VendorTexts, g \in AccountTexts, p \in Profiles}

ReimbursementRecords ==
    {MkReimbursement(v, g, p) :
        v \in VendorTexts, g \in AccountTexts, p \in Profiles}

\* The first k slots filled (accounts A1, A2, A2, ...), the others blank.
FirstSlots(k) ==
    [j \in 1..MaxSplits |->
        IF j <= k THEN [gl |-> IF j = 1 THEN "A1" ELSE "A2", amt |-> "40.00"]
        ELSE BlankSlot]

BaseProfile == <<"good", "45.00", "40.00", "5.00">>

\* Rows of an export with MaxSplits line item column groups: a split row
\* with one slot filled, and the rows that differ from it in one respect.
SplitRecords ==
    LET S1 == FirstSlots(1)
        S0 == FirstSlots(0)
        Row(v, g, p, s) == MkTransaction(v, g, p, MaxSplits, s)
    IN  {Row("Acme", "", BaseProfile, FirstSlots(k)) : k \in 0..MaxSplits}
        \cup {Row("Acme", "", p, S1) : p \in Profiles}
        \cup {Row("Bogus", "", BaseProfile, S1)}
        \cup {Row("Acme", "", BaseProfile,
                  [S1 EXCEPT ![1] = [gl |-> "X9", amt |-> "40.00"]])}
        \cup {Row("Acme", "", BaseProfile, [S1 EXCEPT ![j] = sl]) :
                j \in 2..MaxSplits,
                sl \in {[gl |-> "A2", amt |-> ""], [gl |-> "", amt |-> "40.00"],
                        [gl |-> "X9", amt |-> "40.00"]}}
        \cup {Row("Acme", g, BaseProfile, s) :
                g \in AccountTexts, s \in {S0, S1}}
        \cup {Row("Acme", "A1", <<"good", "-150.00", "-150.00", "0">>, S0)}

\* Batches whose header lacks required columns: one row, some keys dropped.
Restrict(f, D) == [k \in DOMAIN f \ D |-> f[k]]

MalformedBatches ==
    LET plain == MkTransaction("Acme", "A1", BaseProfile, 0, NoSlots)
        split == MkTransaction("Acme", "", BaseProfile, MaxSplits, FirstSlots(1))
        reimb == MkReimbursement("Acme", "A1", BaseProfile)
    IN  {<<Restrict(plain, {"description"})>>,
         <<Restrict(reimb, {"requester", "tax"})>>,
         <<Restrict(split, {"transaction subtotal dollars", "gl code id"})>>,
         <<Restrict(split, {LineItemKey(MaxSplits, "tax amount")})>>}

SeqsUpTo(S, n) == UNION {[1..k -> S] : k \in 1..n}

Batches ==
    {<< >>} \cup MalformedBatches
    \cup SeqsUpTo(PlainRecords, MaxRecords)
    \cup SeqsUpTo(ReimbursementRecords, MaxRecords)
    \cup SeqsUpTo(SplitRecords, MaxRecords)

\* ------------------------------------------------------------------ Init
NoResponse == [hasList |-> FALSE, responseList |-> << >>]

\* ProcessFile after the file has been read into memory (line 403).
Init ==
    /\ transactions \in Batches
    /\ pc = "ProcessFile"
    /\ reimbursement = FALSE
    /\ maxSplits = 0
    /\ errors = << >>
    /\ echoed = << >>
    /\ requestMsgSet = << >>
    /\ count = 0
    /\ i = 1
    /\ respMsgSet = NoResponse
    /\ r = 1
    /\ Success = TRUE
    /\ fetches = 0
    /\ submits = 0
    /\ result = "running"
    /\ offerDelete = FALSE

\* ------------------------------------------------------------- the log
\* One line of Error(): the message, the bad value it quotes, the split
\* number and the payee it names; resp is the index of the response WalkRs
\* was at when the line was written (0 outside WalkRs).
Err(msg, value, split, vendor, resp) ==
    [msg |-> msg, value |-> value, split |-> split, vendor |-> vendor,
     resp |-> resp]

\* One line of click.echo.
Echo(msg, resp) == [msg |-> msg, resp |-> resp]

\* The except clause of ProcessFile: the run ends with the error logged.
Raise(what) ==
    /\ errors' = Append(errors, Err("Failed to process", what, 0, "", 0))
    /\ pc' = "Done"
    /\ result' = "exception"

\* ------------------------------------------------------ kind detection
\* The largest n with a column that starts "line item n", 0 if none.
DetectMaxSplits(first) ==
    LET splits == {n \in 1..MaxSplits :
                     \E f \in SplitFields : LineItemKey(n, f) \in DOMAIN first}
    IN  IF splits = {} THEN 0
        ELSE CHOOSE n \in splits : \A m \in splits : m <= n

\* ProcessFile, lines 405-415; transactions[0] of an empty batch raises
\* IndexError.
DetectKind ==
    /\ pc = "ProcessFile"
    /\ IF transactions = << >>
       THEN /\ Raise("list index out of range")
            /\ UNCHANGED <<reimbursement, maxSplits>>
       ELSE /\ reimbursement' = ("report name" \in DOMAIN transactions[1])
            /\ maxSplits' = IF "report name" \in DOMAIN transactions[1] THEN 0
                            ELSE DetectMaxSplits(transactions[1])
            /\ pc' = "VerifyCSVKeys"
            /\ UNCHANGED <<errors, result>>
    /\ UNCHANGED <<transactions, echoed, requestMsgSet, count, i, respMsgSet,
                   r, Success, fetches, submits, offerDelete>>

\* ------------------------------------------------------- VerifyCSVKeys
\* The keys VerifyCSVKeys reports missing from the first record.
MissingKeys(ts, reimb, ms) ==
    {k \in RequiredKeys(reimb, ms) : k \notin DOMAIN ts[1]}

\* VerifyCSVKeys without the loop over the required keys.
VerifyCSVKeys_NoKeyCheck(ts, reimb, ms) == ts # << >>

VerifyCSVKeys(ts, reimb, ms) ==
    IF ts = << >> THEN FALSE
    ELSE MissingKeys(ts, reimb, ms) = {}

\* ProcessFile, lines 418-419.
Verify ==
    /\ pc = "VerifyCSVKeys"
    /\ IF VerifyCSVKeys(transactions, reimbursement, maxSplits)
       THEN /\ pc' = "PreCheck"
            /\ UNCHANGED <<errors, result>>
       ELSE /\ errors' = Append(errors,
                   Err(IF transactions = << >>
                       THEN "No transactions found in CSV"
                       ELSE "Missing required keys in CSV", "", 0, "", 0))
            /\ pc' = "Done"
            /\ result' = "malformed"
    /\ UNCHANGED <<transactions, reimbursement, maxSplits, echoed,
                   requestMsgSet, count, i, respMsgSet, r, Success, fetches,
                   submits, offerDelete>>

\* ------------------------------------------------------------ PreCheck
VendorName(reimb) == IF reimb THEN "requester" ELSE "accounting vendor name"

\* The inner loop of PreCheck over the split slots n..ms of record t.
RECURSIVE PreCheckSplits(_, _, _, _)
PreCheckSplits(t, n, ms, reimb) ==
    IF n > ms THEN << >>
    ELSE (IF /\ t[LineItemKey(n, "amount")] # ""
             /\ t[LineItemKey(n, "gl code id")] \notin QBAccounts
          THEN <<Err("Invalid gl code id", t[LineItemKey(n, "gl code id")],
                     n, t[VendorName(reimb)], 0)>>
          ELSE << >>)
         \o PreCheckSplits(t, n + 1, ms, reimb)

\* PreCheckRecord with the account check as an elif of the payee check.
PreCheckRecord_Elif(t, reimb, ms) ==
    IF t[VendorName(reimb)] \notin QBVendors
    THEN <<Err("Invalid " \o VendorName(reimb), t[VendorName(reimb)], 0, "", 0)>>
    ELSE IF ms # 0 /\ t["line item 1 amount"] # ""
         THEN PreCheckSplits(t, 1, ms, reimb)
         ELSE IF t["gl code id"] \notin QBAccounts
              THEN <<Err("Invalid gl code id", t["gl code id"], 0,
                         t[VendorName(reimb)], 0)>>
              ELSE << >>

\* The body of the PreCheck loop: the lines it logs for record t.
PreCheckRecord(t, reimb, ms) ==
    (IF t[VendorName(reimb)] \notin QBVendors
     THEN <<Err("Invalid " \o VendorName(reimb), t[VendorName(reimb)], 0, "", 0)>>
     ELSE << >>)
    \o (IF ms # 0 /\ t["line item 1 amount"] # ""
        THEN PreCheckSplits(t, 1, ms, reimb)
        ELSE IF t["gl code id"] \notin QBAccounts
             THEN <<Err("Invalid gl code id", t["gl code id"], 0,
                        t[VendorName(reimb)], 0)>>
             ELSE << >>)

\* PreCheckLog leaving the loop at the first record that logs something.
RECURSIVE PreCheckLog_FailFast(_, _, _, _)
PreCheckLog_FailFast(ts, n, reimb, ms) ==
    IF n > Len(ts) THEN << >>
    ELSE IF PreCheckRecord(ts[n], reimb, ms) # << >>
         THEN PreCheckRecord(ts[n], reimb, ms)
         ELSE PreCheckLog_FailFast(ts, n + 1, reimb, ms)

\* Everything PreCheck logs for records n.. of the batch, in order.
RECURSIVE PreCheckLog(_, _, _, _)
PreCheckLog(ts, n, reimb, ms) ==
    IF n > Len(ts) THEN << >>
    ELSE PreCheckRecord(ts[n], reimb, ms) \o PreCheckLog(ts, n + 1, reimb, ms)

\* PreCheck returning after the first record.
PreCheck_FirstRecordOnly(ts, reimb, ms) ==
    PreCheckRecord(ts[1], reimb, ms) = << >>

\* The value PreCheck returns: good stays True only if nothing was logged.
PreCheck(ts, reimb, ms) == PreCheckLog(ts, 1, reimb, ms) = << >>

\* ProcessFile loading the account list and the vendor list in two round
\* trips.
Validate_FetchPerList ==
    /\ pc = "PreCheck"
    /\ fetches' = fetches + 2
    /\ errors' = errors \o PreCheckLog(transactions, 1, reimbursement, maxSplits)
    /\ IF PreCheck(transactions, reimbursement, maxSplits)
       THEN /\ pc' = IF reimbursement THEN "ProcessReimbursements"
                     ELSE "ProcessTransactions"
            /\ UNCHANGED result
       ELSE /\ pc' = "Done"
            /\ result' = "invalid"
    /\ UNCHANGED <<transactions, reimbursement, maxSplits, echoed,
                   requestMsgSet, count, i, respMsgSet, r, Success, submits,
                   offerDelete>>

\* ProcessFile, lines 421-423: one LoadListsFromQB round trip, then the
\* whole batch is checked.
Validate ==
    /\ pc = "PreCheck"
    /\ fetches' = fetches + 1
    /\ errors' = errors \o PreCheckLog(transactions, 1, reimbursement, maxSplits)
    /\ IF PreCheck(transactions, reimbursement, maxSplits)
       THEN /\ pc' = IF reimbursement THEN "ProcessReimbursements"
                     ELSE "ProcessTransactions"
            /\ UNCHANGED result
       ELSE /\ pc' = "Done"
            /\ result' = "invalid"
    /\ UNCHANGED <<transactions, reimbursement, maxSplits, echoed,
                   requestMsgSet, count, i, respMsgSet, r, Success, submits,
                   offerDelete>>

\* ------------------------------------------------- ProcessTransactions
Line(account, amount, memo) ==
    [account |-> account, amount |-> amount, memo |-> memo]

Request(type, account, payee, date, memo, lines) ==
    [type |-> type, account |-> account, payee |-> payee, txnDate |-> date,
     memo |-> memo, lines |-> lines]

\* The synthesized tax line both builders append when the tax is not 0.
\* The tax line added for a positive tax only.
TaxLines_PositiveOnly(tax) ==
    IF tax > 0 THEN <<Line("GST Accounts Receivable", tax, "Half of the GST")>>
    ELSE << >>

TaxLines(tax) ==
    IF tax # 0 THEN <<Line("GST Accounts Receivable", tax, "Half of the GST")>>
    ELSE << >>

\* The split loop (lines 287-301) over slots n..ms: a slot counts when its
\* gl code id is not empty, and float() of its amount may raise.
RECURSIVE SplitLineItems(_, _, _)
SplitLineItems(trans, n, ms) ==
    IF n > ms THEN [ok |-> TRUE, items |-> << >>]
    ELSE LET rest == SplitLineItems(trans, n + 1, ms)
             amt == Float(trans[LineItemKey(n, "amount")])
         IN  IF trans[LineItemKey(n, "gl code id")] # ""
             THEN IF amt.ok /\ rest.ok
                  THEN [ok |-> TRUE,
                        items |-> <<[description |-> trans[LineItemKey(n, "description")],
                                     total |-> amt.val,
                                     glcode |-> trans[LineItemKey(n, "gl code id")]]>>
                                  \o rest.items]
                  ELSE [ok |-> FALSE, items |-> << >>]
             ELSE rest

\* lineItems of ProcessTransactions (lines 275-301).
LineItems(trans, ms, trnsTotal) ==
    IF ms = 0 \/ trans["gl code id"] # ""
    THEN [ok |-> TRUE,
          items |-> <<[description |-> trans["description"],
                       total |-> trnsTotal,
                       glcode |-> trans["gl code id"]]>>]
    ELSE SplitLineItems(trans, 1, ms)

\* The expense lines of a cheque (lines 327-331).
RECURSIVE ExpenseLines(_)
ExpenseLines(items) ==
    IF items = << >> THEN << >>
    ELSE <<Line(Head(items).glcode, Head(items).total, Head(items).description)>>
         \o ExpenseLines(Tail(items))

NoRequest == Request("", "", "", << >>, "", << >>)

\* The amount ProcessTransactions classifies by and posts (line 270).
TrnsTotalText(trans) == trans["transaction subtotal dollars"]

\* ProcessTransactions without the check for an empty lineItems.
BuildTransaction_NoEmptyCheck(trans, ms) ==
    LET trnsDate == Strptime(trans["transaction date"], FALSE)
        trnsTotal == Float(TrnsTotalText(trans))
        trnsTax == Float(trans["transaction tax dollars"])
        lineItems == LineItems(trans, ms, trnsTotal.val)
    IN  IF ~trnsDate.ok \/ ~trnsTotal.ok \/ ~trnsTax.ok \/ ~lineItems.ok
        THEN [outcome |-> "raise", request |-> NoRequest]
        ELSE IF trnsTotal.val < 0
        THEN [outcome |-> "append",
              request |-> Request("DepositAdd", "Float Financial", "",
                              trnsDate.val, trans["description"],
                              <<Line(trans["gl code id"], -1 * trnsTotal.val, "")>>)]
        ELSE [outcome |-> "append",
              request |-> Request("CheckAdd", "Float Financial",
                              trans["accounting vendor name"], trnsDate.val,
                              trans["description"],
                              ExpenseLines(lineItems.items) \o TaxLines(trnsTax.val))]

\* One pass of the loop of ProcessTransactions (lines 267-339) for record
\* trans: "raise" (an exception leaves the loop), "skip" (continue) or
\* "append" with the request built.
BuildTransaction(trans, ms) ==
    LET trnsDate == Strptime(trans["transaction date"], FALSE)
        trnsTotal == Float(TrnsTotalText(trans))
        trnsTax == Float(trans["transaction tax dollars"])
        lineItems == LineItems(trans, ms, trnsTotal.val)
    IN  IF ~trnsDate.ok \/ ~trnsTotal.ok \/ ~trnsTax.ok \/ ~lineItems.ok
        THEN [outcome |-> "raise", request |-> NoRequest]
        ELSE IF lineItems.items = << >>
        THEN [outcome |-> "skip", request |-> NoRequest]
        ELSE IF trnsTotal.val < 0
        THEN [outcome |-> "append",
              request |-> Request("DepositAdd", "Float Financial", "",
                              trnsDate.val, trans["description"],
                              <<Line(trans["gl code id"], -1 * trnsTotal.val, "")>>)]
        ELSE [outcome |-> "append",
              request |-> Request("CheckAdd", "Float Financial",
                              trans["accounting vendor name"], trnsDate.val,
                              trans["description"],
                              ExpenseLines(lineItems.items) \o TaxLines(trnsTax.val))]

\* ProcessReimbursements classifying by sign as ProcessTransactions does: a
\* negative subtotal gives a Deposit.
BuildReimbursement_DepositForNegative(trans) ==
    LET trnsDate == Strptime(trans["expense date"], TRUE)
        trnsDesc == Strip(trans["description"])
        trnsAmount == Float(trans["total"])
        trnsSubtotal == Float(trans["subtotal"])
        trnsTax == Float(trans["tax"])
    IN  IF ~trnsDate.ok
        THEN [outcome |-> "raise", request |-> NoRequest]
        ELSE IF ~trnsAmount.ok \/ ~trnsSubtotal.ok \/ ~trnsTax.ok
        THEN [outcome |-> "skip", request |-> NoRequest]
        ELSE IF trnsSubtotal.val < 0
        THEN [outcome |-> "append",
              request |-> Request("DepositAdd", "Float Financial", "",
                              trnsDate.val, trnsDesc,
                              <<Line(trans["gl code id"], -1 * trnsSubtotal.val, "")>>)]
        ELSE [outcome |-> "append",
              request |-> Request("BillAdd", "Accounts Payable",
                              trans["requester"], trnsDate.val, trnsDesc,
                              <<Line(trans["gl code id"], trnsSubtotal.val, trnsDesc)>>
                              \o TaxLines(trnsTax.val))]

\* One pass of the loop of ProcessReimbursements (lines 354-386).
BuildReimbursement(trans) ==
    LET trnsDate == Strptime(trans["expense date"], TRUE)
        trnsDesc == Strip(trans["description"])
        trnsAmount == Float(trans["total"])
        trnsSubtotal == Float(trans["subtotal"])
        trnsTax == Float(trans["tax"])
    IN  IF ~trnsDate.ok
        THEN [outcome |-> "raise", request |-> NoRequest]
        ELSE IF ~trnsAmount.ok \/ ~trnsSubtotal.ok \/ ~trnsTax.ok
        THEN [outcome |-> "skip", request |-> NoRequest]
        ELSE [outcome |-> "append",
              request |-> Request("BillAdd", "Accounts Payable",
                              trans["requester"], trnsDate.val, trnsDesc,
                              <<Line(trans["gl code id"], trnsSubtotal.val, trnsDesc)>>
                              \o TaxLines(trnsTax.val))]

\* The build loop counting a skipped record as processed.
LoopPass_CountsSkipped(built, skipMessage) ==
    /\ CASE built.outcome = "raise" ->
               /\ Raise("ValueError")
               /\ UNCHANGED <<requestMsgSet, count, i>>
         [] built.outcome = "skip" ->
               /\ errors' = Append(errors, Err(skipMessage, "", 0, "", 0))
               /\ count' = count + 1
               /\ i' = i + 1
               /\ UNCHANGED <<requestMsgSet, pc, result>>
         [] OTHER ->
               /\ requestMsgSet' = Append(requestMsgSet, built.request)
               /\ count' = count + 1
               /\ i' = i + 1
               /\ UNCHANGED <<errors, pc, result>>
    /\ UNCHANGED <<transactions, reimbursement, maxSplits, echoed, respMsgSet,
                   r, Success, fetches, submits, offerDelete>>

\* What one pass of a build loop does with its outcome.
LoopPass(built, skipMessage) ==
    /\ CASE built.outcome = "raise" ->
               /\ Raise("ValueError")
               /\ UNCHANGED <<requestMsgSet, count, i>>
         [] built.outcome = "skip" ->
               /\ errors' = Append(errors, Err(skipMessage, "", 0, "", 0))
               /\ i' = i + 1
               /\ UNCHANGED <<requestMsgSet, count, pc, result>>
         [] OTHER ->
               /\ requestMsgSet' = Append(requestMsgSet, built.request)
               /\ count' = count + 1
               /\ i' = i + 1
               /\ UNCHANGED <<errors, pc, result>>
    /\ UNCHANGED <<transactions, reimbursement, maxSplits, echoed, respMsgSet,
                   r, Success, fetches, submits, offerDelete>>

ProcessTransactions ==
    /\ pc = "ProcessTransactions"
    /\ i <= Len(transactions)
    /\ LoopPass(BuildTransaction(transactions[i], maxSplits),
                "Transaction has no detectable amounts or splits.")

ProcessReimbursements ==
    /\ pc = "ProcessReimbursements"
    /\ i <= Len(transactions)
    /\ LoopPass(BuildReimbursement(transactions[i]),
                "Invalid number format in transaction.")

\* ---------------------------------------------------------- DoRequests
\* The response type QuickBooks gives to an add request.
ResponseType(req) ==
    CASE req.type = "DepositAdd" -> "rtDepositAddRs"
      [] req.type = "CheckAdd" -> "rtCheckAddRs"
      [] OTHER -> "rtBillAddRs"

Response(code, detail, type) ==
    [StatusCode |-> code, Detail |-> detail, Type |-> type]

\* What QuickBooks answers to one add request: created (status 0, with the
\* created transaction as detail) or rejected (status 3001 here, with or
\* without detail).
Answers(req) ==
    {Response(0, TRUE, ResponseType(req)),
     Response(3001, FALSE, ResponseType(req)),
     Response(3001, TRUE, ResponseType(req))}

\* The response sets QuickBooks may return for a request set: one response
\* per request, in order; for an empty request set, no list or an empty one.
ResponseSets(reqs) ==
    IF reqs = << >>
    THEN {NoResponse, [hasList |-> TRUE, responseList |-> << >>]}
    ELSE {[hasList |-> TRUE, responseList |-> rl] :
            rl \in {f \in [1..Len(reqs) -> UNION {Answers(reqs[n]) : n \in 1..Len(reqs)}] :
                      \A n \in 1..Len(reqs) : f[n] \in Answers(reqs[n])}}

\* The end of ProcessTransactions / ProcessReimbursements (lines 341, 388):
\* the one batch round trip.
DoRequests ==
    /\ pc \in {"ProcessTransactions", "ProcessReimbursements"}
    /\ i > Len(transactions)
    /\ submits' = submits + 1
    /\ respMsgSet' \in ResponseSets(requestMsgSet)
    /\ pc' = "WalkRs"
    /\ r' = 1
    /\ Success' = TRUE
    /\ UNCHANGED <<transactions, reimbursement, maxSplits, errors, echoed,
                   requestMsgSet, count, i, fetches, result, offerDelete>>

\* -------------------------------------------------------------- WalkRs
KnownTypes == {"rtDepositAddRs", "rtCheckAddRs", "rtBillAddRs"}

\* WalkDepositRet, WalkCheckRet, WalkBillRet: with status 0 the created
\* transaction is echoed, otherwise each line of the returned detail (one
\* line here) is logged.
Created(type) ==
    CASE type = "rtDepositAddRs" -> "Created deposit"
      [] type = "rtCheckAddRs" -> "Created cheque"
      [] OTHER -> "Created bill"

ErrorCreating(type) ==
    CASE type = "rtDepositAddRs" -> "Error creating Deposit"
      [] type = "rtCheckAddRs" -> "Error creating Cheque"
      [] OTHER -> "Error creating Bill"

WalkRet(resp, n) ==
    IF resp.StatusCode = 0
    THEN [errs |-> << >>, echoes |-> <<Echo(Created(resp.Type), n)>>]
    ELSE [errs |-> <<Err(ErrorCreating(resp.Type), "", 0, "", n)>>,
          echoes |-> << >>]

\* The first if of the loop body of WalkRs (lines 150-152).
StatusFails(resp) == resp.StatusCode > 0

\* The guard of the second if (line 153): the detail is unpacked.
Unpacks(resp) == resp.StatusCode >= 0 /\ resp.Detail

\* The body of the loop of WalkRs (lines 150-166) for the n-th response:
\* what it logs and echoes, and whether it sets Success to False.
WalkResponse(resp, n) ==
    LET first == IF StatusFails(resp)
                 THEN <<Err("Error: Code", ToString(resp.StatusCode), 0, "", n)>>
                 ELSE << >>
        known == resp.Type \in KnownTypes
        ret == WalkRet(resp, n)
    IN  [errs |-> first
                  \o (IF Unpacks(resp)
                      THEN IF known THEN ret.errs
                           ELSE <<Err("Unknown response type", resp.Type, 0, "", n)>>
                      ELSE << >>),
         echoes |-> IF Unpacks(resp) /\ known THEN ret.echoes ELSE << >>,
         fails |-> StatusFails(resp) \/ (Unpacks(resp) /\ ~known)]

\* One pass of the loop of WalkRs.
WalkRs ==
    /\ pc = "WalkRs"
    /\ respMsgSet.hasList
    /\ r <= Len(respMsgSet.responseList)
    /\ LET w == WalkResponse(respMsgSet.responseList[r], r)
       IN  /\ errors' = errors \o w.errs
           /\ echoed' = echoed \o w.echoes
           /\ Success' = (Success /\ ~w.fails)
    /\ r' = r + 1
    /\ UNCHANGED <<transactions, pc, reimbursement, maxSplits, requestMsgSet,
                   count, i, respMsgSet, fetches, submits, result, offerDelete>>

\* The end of ProcessFile (lines 435-441): on success the count is echoed
\* and the delete prompt is reached.
ProcessFileEnd ==
    /\ IF Success
       THEN /\ echoed' = Append(echoed, Echo("Conversion complete", 0))
            /\ offerDelete' = TRUE
            /\ result' = "success"
       ELSE /\ echoed' = Append(echoed, Echo("Failed to import transactions to QuickBooks", 0))
            /\ offerDelete' = FALSE
            /\ result' = "failed"
    /\ pc' = "Done"
    /\ UNCHANGED <<transactions, reimbursement, maxSplits, errors,
                   requestMsgSet, count, i, respMsgSet, r, Success, fetches,
                   submits>>

\* WalkRs returning as soon as one response has failed.
WalkRsReturn_AtFirstFailure ==
    /\ pc = "WalkRs"
    /\ \/ ~respMsgSet.hasList
       \/ r > Len(respMsgSet.responseList)
       \/ ~Success
    /\ ProcessFileEnd

\* WalkRs returns, without a list or after the last response, and
\* ProcessFile ends.
WalkRsReturn ==
    /\ pc = "WalkRs"
    /\ ~respMsgSet.hasList \/ r > Len(respMsgSet.responseList)
    /\ ProcessFileEnd

\* ---------------------------------------------------- the specification
Next ==
    \/ DetectKind
    \/ Verify
    \/ Validate
    \/ ProcessTransactions
    \/ ProcessReimbursements
    \/ DoRequests
    \/ WalkRs
    \/ WalkRsReturn

Spec == Init /\ [][Next]_vars

\* WalkRs on any response set: status codes below, at and above 0, detail
\* present or absent, known and unknown response types.
MaxResponses == 2

StatusCodes == {-1, 0, 3001}
ResponseTypes == KnownTypes \cup {"rtVendorAddRs"}

AnyResponse ==
    {Response(c, d, t) : c \in StatusCodes, d \in BOOLEAN, t \in ResponseTypes}

InitWalkRs ==
    /\ respMsgSet \in {NoResponse}
          \cup {[hasList |-> TRUE, responseList |-> rl] :
                   rl \in {<< >>} \cup SeqsUpTo(AnyResponse, MaxResponses)}
    /\ pc = "WalkRs"
    /\ transactions = << >>
    /\ reimbursement = FALSE
    /\ maxSplits = 0
    /\ errors = << >>
    /\ echoed = << >>
    /\ requestMsgSet = << >>
    /\ count = 0
    /\ i = 1
    /\ r = 1
    /\ Success = TRUE
    /\ fetches = 1
    /\ submits = 1
    /\ result = "running"
    /\ offerDelete = FALSE

NextWalkRs == WalkRs \/ WalkRsReturn

SpecWalkRs == InitWalkRs /\ [][NextWalkRs]_vars

\* ProcessTransactions on any batch of an export with split columns, also
\* one PreCheck would have turned away, followed by its DoRequests.
InitProcessTransactions ==
    /\ transactions \in SeqsUpTo(SplitRecords, MaxRecords)
    /\ pc = "ProcessTransactions"
    /\ reimbursement = FALSE
    /\ maxSplits = MaxSplits
    /\ errors = << >>
    /\ echoed = << >>
    /\ requestMsgSet = << >>
    /\ count = 0
    /\ i = 1
    /\ respMsgSet = NoResponse
    /\ r = 1
    /\ Success = TRUE
    /\ fetches = 1
    /\ submits = 0
    /\ result = "running"
    /\ offerDelete = FALSE

NextProcessTransactions == ProcessTransactions \/ DoRequests

SpecProcessTransactions ==
    InitProcessTransactions /\ [][NextProcessTransactions]_vars

\* ========================================================== properties
\* Vocabulary of the properties below.

\* The lines PreCheck writes.
IsViolation(e) ==
    e.msg \in {"Invalid requester", "Invalid accounting vendor name",
               "Invalid gl code id"}

ViolationLogged == \E k \in DOMAIN errors : IsViolation(errors[k])

\* PreCheck has run (the header check passed before it).
Validated == fetches = 1 /\ pc # "PreCheck"

Payee(t) == t[IF reimbursement THEN "requester" ELSE "accounting vendor name"]

\* A split record: the batch has split columns and the first slot's amount
\* is not blank.
IsSplit(t) == maxSplits # 0 /\ t[LineItemKey(1, "amount")] # ""

\* The slots of a record that have an amount.
FilledSlots(t) == {n \in 1..maxSplits : t[LineItemKey(n, "amount")] # ""}

\* The account ids a record contributes to validation.
Contributing(t) ==
    IF IsSplit(t) THEN {t[LineItemKey(n, "gl code id")] : n \in FilledSlots(t)}
    ELSE {t["gl code id"]}

RecordValid(t) == Payee(t) \in QBVendors /\ Contributing(t) \subseteq QBAccounts

BatchValid == \A k \in DOMAIN transactions : RecordValid(transactions[k])

\* How many logged lines carry message msg and quote value v.
Reported(msg, v) ==
    Cardinality({k \in DOMAIN errors : errors[k].msg = msg /\ errors[k].value = v})

PayeeMsg == IF reimbursement THEN "Invalid requester"
            ELSE "Invalid accounting vendor name"

BadPayees == {Payee(transactions[k]) : k \in DOMAIN transactions} \ QBVendors

BadAccounts ==
    UNION {Contributing(transactions[k]) : k \in DOMAIN transactions} \ QBAccounts

\* The places of the batch that reference account id a: <<k, 0>> is the gl
\* code id of record k, <<k, n>> its n-th split slot.
AccountReferences(a) ==
    {p \in (DOMAIN transactions) \X (0..maxSplits) :
        LET t == transactions[p[1]]
        IN  IF IsSplit(t)
            THEN p[2] \in FilledSlots(t) /\ t[LineItemKey(p[2], "gl code id")] = a
            ELSE p[2] = 0 /\ t["gl code id"] = a}

PayeeReferences(v) == {k \in DOMAIN transactions : Payee(transactions[k]) = v}

\* C1: the batch is submitted, and any request built, only after PreCheck
\* has found the whole batch valid; once a violation is logged the run is
\* over with no request built and no submission.
C1_SubmitOnlyAfterValidation ==
    /\ (submits > 0 \/ requestMsgSet # << >>) =>
            (fetches = 1 /\ BatchValid /\ ~ViolationLogged)
    /\ ViolationLogged =>
            (/\ pc = "Done" /\ result = "invalid"
             /\ requestMsgSet = << >> /\ count = 0 /\ submits = 0)

\* A two record batch with one valid and one invalid record was stopped.
C1_Witness ==
    /\ result = "invalid"
    /\ Len(transactions) = 2
    /\ \E k \in DOMAIN transactions : RecordValid(transactions[k])
    /\ submits = 0

\* C2 as stated: every bad payee and every bad account id is reported
\* exactly once, however many records reference it.
C2_ReportedExactlyOnce ==
    Validated =>
        /\ \A v \in BadPayees : Reported(PayeeMsg, v) = 1
        /\ \A a \in BadAccounts : Reported("Invalid gl code id", a) = 1

\* C2 amended: every bad payee is reported once for each record that names
\* it, and every bad account id once for each record or filled split slot
\* that references it; so at least once, and once per occurrence.
C2_ReportedPerOccurrence ==
    Validated =>
        /\ \A v \in BadPayees :
              /\ Reported(PayeeMsg, v) = Cardinality(PayeeReferences(v))
              /\ Reported(PayeeMsg, v) >= 1
        /\ \A a \in BadAccounts :
              /\ Reported("Invalid gl code id", a) = Cardinality(AccountReferences(a))
              /\ Reported("Invalid gl code id", a) >= 1

\* Two records name the same bad payee, and it has been reported twice.
C2_Witness ==
    /\ Validated
    /\ \E v \in BadPayees :
          Cardinality(PayeeReferences(v)) = 2 /\ Reported(PayeeMsg, v) = 2

\* C3: PreCheck lets the run continue, with nothing logged, exactly when
\* every record's payee and contributing account ids are in the lists; it
\* does not stop at the first violation: every bad payee and bad account id
\* of every record is reported.
C3_OkIffAllValid ==
    Validated =>
        /\ (result # "invalid") <=> BatchValid
        /\ BatchValid <=> ~ViolationLogged
        /\ \A k \in DOMAIN transactions :
              LET t == transactions[k]
              IN  /\ Payee(t) \notin QBVendors => Reported(PayeeMsg, Payee(t)) >= 1
                  /\ \A a \in Contributing(t) \ QBAccounts :
                        Reported("Invalid gl code id", a) >= 1

\* The second record's bad account id is reported after the first record's
\* bad payee.
C3_Witness ==
    /\ Validated
    /\ Len(transactions) = 2
    /\ Payee(transactions[1]) \notin QBVendors
    /\ \E a \in Contributing(transactions[2]) \ QBAccounts :
          \E k \in DOMAIN errors :
             /\ k > 1
             /\ errors[k].msg = "Invalid gl code id" /\ errors[k].value = a
    /\ result = "invalid"

Abs(x) == IF x < 0 THEN -x ELSE x

\* Account and amount of every line of a request, in order.
AccountsAndAmounts(lines) ==
    [n \in DOMAIN lines |-> <<lines[n].account, lines[n].amount>>]

\* The amount and tax texts a builder converts with float().
NumericTexts(t) ==
    IF reimbursement THEN {t["total"], t["subtotal"], t["tax"]}
    ELSE {t["transaction subtotal dollars"], t["transaction tax dollars"]}

NonNumeric(t) == \E s \in NumericTexts(t) : ~Float(s).ok

DateMatches(t) ==
    Strptime(t[IF reimbursement THEN "expense date" ELSE "transaction date"],
             reimbursement).ok

\* The run ended in the except clause while the build loop was at record k.
RaisedAt(k) == pc = "Done" /\ result = "exception" /\ fetches = 1 /\ i = k

\* C4 as stated: in a standard batch a non-split record whose total is
\* negative gives a Deposit with one line, against the record's account
\* id, for the absolute value of the total; any other non-split record
\* gives a Disbursement.  (No record of a standard batch is skipped once
\* validation has passed, so request k is built from record k.)
C4_DepositForNegativeTotal ==
    ~reimbursement =>
        \A k \in DOMAIN requestMsgSet :
            LET t == transactions[k]
                q == requestMsgSet[k]
                total == Float(t["total dollars"]).val
            IN  ~IsSplit(t) =>
                    IF total < 0
                    THEN /\ q.type = "DepositAdd"
                         /\ AccountsAndAmounts(q.lines)
                               = << <<t["gl code id"], Abs(total)>> >>
                    ELSE q.type = "CheckAdd"

\* The expense lines C5 expects of a split record: one per slot with an
\* amount, in slot order, with the slot's account id and amount.
RECURSIVE SlotLines(_, _)
SlotLines(t, n) ==
    IF n > maxSplits THEN << >>
    ELSE (IF t[LineItemKey(n, "amount")] # ""
          THEN << <<t[LineItemKey(n, "gl code id")],
                    Float(t[LineItemKey(n, "amount")]).val>> >>
          ELSE << >>)
         \o SlotLines(t, n + 1)

\* C5 as stated, for the split records whose amount is not negative (the
\* ones the classification rule sends to Disbursement): a split record of a
\* standard batch gives a Disbursement whose lines are one expense line per
\* slot with an amount, in slot order, then one tax line when the record's
\* tax is not 0; and building it does not end the run.
C5_SplitLinesPerFilledSlot ==
    (~reimbursement /\ maxSplits # 0) =>
        /\ \A k \in DOMAIN requestMsgSet :
              LET t == transactions[k]
                  q == requestMsgSet[k]
                  tax == Float(t["transaction tax dollars"]).val
              IN  (IsSplit(t) /\ Float(t["total dollars"]).val >= 0) =>
                      /\ q.type = "CheckAdd"
                      /\ AccountsAndAmounts(q.lines)
                            = SlotLines(t, 1)
                              \o (IF tax # 0
                                  THEN << <<"GST Accounts Receivable", tax>> >>
                                  ELSE << >>)
        /\ \A k \in DOMAIN transactions :
              RaisedAt(k) =>
                 ~(/\ IsSplit(transactions[k])
                   /\ DateMatches(transactions[k])
                   /\ Float(transactions[k]["transaction subtotal dollars"]).ok
                   /\ Float(transactions[k]["transaction tax dollars"]).ok)

\* C6 as stated: a record with a non-numeric amount or tax is skipped, in
\* both kinds of batch: the run does not end at it, and the batch that is
\* submitted counts exactly the other records.
C6_NonNumericSkipsRecordOnly ==
    /\ \A k \in DOMAIN transactions :
          RaisedAt(k) =>
             ~(NonNumeric(transactions[k]) /\ DateMatches(transactions[k]))
    /\ submits = 1 =>
          count = Cardinality({k \in DOMAIN transactions :
                                  ~NonNumeric(transactions[k])})

\* C7 as stated: a record whose date does not match the format of the
\* batch kind is skipped; the run does not end at it.
C7_BadDateSkipsRecordOnly ==
    \A k \in DOMAIN transactions :
        RaisedAt(k) => DateMatches(transactions[k])

\* A response that is a success: status code 0 and a known transaction kind.
IsSuccess(resp) == resp.StatusCode = 0 /\ resp.Type \in KnownTypes

Responses == respMsgSet.responseList

Walked == pc = "Done" /\ result \in {"success", "failed"}

\* C8 as stated: WalkRs returns True exactly when every response is a
\* success.
C8_SucceededIffEverySuccess ==
    Walked =>
        ((result = "success") <=> \A n \in DOMAIN Responses : IsSuccess(Responses[n]))

CreatedEchoes(n) ==
    {k \in DOMAIN echoed :
        echoed[k].resp = n /\ echoed[k].msg = Created(Responses[n].Type)}

FailureLines(n) == {k \in DOMAIN errors : errors[k].resp = n}

\* C9: each response is reported on its own: every walked response with
\* status 0 is echoed as created, once, with nothing logged against it;
\* every walked response with a positive status is logged as a failure and
\* not echoed as created; WalkRs walks all of them, and with any positive
\* status the batch outcome is failure.
C9_RejectedDoesNotAffectOthers ==
    (submits = 1 /\ pc \in {"WalkRs", "Done"}) =>
        /\ \A n \in DOMAIN Responses :
              n < r =>
                 /\ Responses[n].StatusCode = 0 =>
                       (Cardinality(CreatedEchoes(n)) = 1 /\ FailureLines(n) = {})
                 /\ Responses[n].StatusCode > 0 =>
                       (/\ \E k \in FailureLines(n) : errors[k].msg = "Error: Code"
                        /\ CreatedEchoes(n) = {})
        /\ Walked =>
              /\ r = Len(Responses) + 1
              /\ (\E n \in DOMAIN Responses : Responses[n].StatusCode > 0)
                    => result = "failed"

\* A rejected first draft, then a created second one, and the batch failed.
C9_Witness ==
    /\ Walked
    /\ Len(Responses) = 2
    /\ Responses[1].StatusCode = 3001
    /\ Responses[2].StatusCode = 0
    /\ CreatedEchoes(2) # {}
    /\ CreatedEchoes(1) = {}
    /\ result = "failed"

\* C10 as stated: a response of an unknown transaction kind is logged as a
\* failure and makes the result False, and every response is still walked.
C10_UnknownKindFails ==
    Walked =>
        /\ r = Len(Responses) + 1
        /\ \A n \in DOMAIN Responses :
              Responses[n].Type \notin KnownTypes =>
                 /\ \E k \in FailureLines(n) : errors[k].msg = "Unknown response type"
                 /\ result = "failed"

\* C11 as stated: the offer to delete the source file is made only when
\* WalkRs returned True for the submitted batch, and never after a
\* malformed batch, a validation failure, a fatal error, or a batch in
\* which some response was not a success.
C11_OfferOnlyAfterSuccess ==
    /\ offerDelete =>
          /\ result = "success"
          /\ Success
          /\ fetches = 1
          /\ submits = 1
          /\ respMsgSet.hasList =>
                \A n \in DOMAIN Responses : IsSuccess(Responses[n])
    /\ result \in {"malformed", "invalid", "exception", "failed"} => ~offerDelete

\* C12 as stated: every run performs exactly one reference-data fetch and
\* at most one batch submission call.
C12_ExactlyOneFetch ==
    pc = "Done" => (fetches = 1 /\ submits <= 1)

\* The run stopped before validation: an empty batch (IndexError at line
\* 405) or a first record without a required key.
StoppedBeforeValidation ==
    \/ result = "malformed"
    \/ result = "exception" /\ transactions = << >>

\* C12, amended: a run performs at most one reference-data fetch and at
\* most one batch submission call, whatever the outcome; it performs
\* exactly one fetch unless it stopped before validation, and it submits
\* only after the fetch and only once, also when the batch was rejected.
C12_AtMostOneFetchOneSubmission ==
    /\ fetches \in {0, 1}
    /\ submits \in {0, 1}
    /\ submits = 1 => fetches = 1
    /\ pc = "Done" =>
          /\ fetches = 1 <=> ~StoppedBeforeValidation
          /\ submits = 1 <=> result \in {"success", "failed"}

\* A batch QuickBooks rejected: fetched once, submitted once, not retried.
C12_Witness ==
    /\ pc = "Done"
    /\ result = "failed"
    /\ fetches = 1
    /\ submits = 1

\* The first record of the batch lacks a key its batch kind requires.
FirstRecordLacksKey ==
    /\ transactions # << >>
    /\ LET first == transactions[1]
           reimb == "report name" \in DOMAIN first
           ms    == IF reimb THEN 0 ELSE DetectMaxSplits(first)
       IN  RequiredKeys(reimb, ms) \ DOMAIN first # {}

\* C13: a batch that is empty or whose first record lacks a required field
\* is rejected before validation: the run never gets past the field check,
\* fetches no reference data, builds no draft, makes no submission call,
\* and ends with one error logged and no offer to delete the file.
C13_MalformedStopsBeforeValidation ==
    (transactions = << >> \/ FirstRecordLacksKey) =>
        /\ pc \in {"ProcessFile", "VerifyCSVKeys", "Done"}
        /\ fetches = 0
        /\ submits = 0
        /\ requestMsgSet = << >>
        /\ count = 0
        /\ pc = "Done" =>
              /\ result \in {"malformed", "exception"}
              /\ Len(errors) = 1
              /\ ~offerDelete

\* A batch whose first record lacks a key, rejected by VerifyCSVKeys.
C13_Witness ==
    /\ FirstRecordLacksKey
    /\ pc = "Done"
    /\ result = "malformed"
    /\ errors[1].msg = "Missing required keys in CSV"
    /\ fetches = 0

\* The field check has been made on a standard batch with splits.
SplitBatchChecked ==
    /\ transactions # << >>
    /\ pc \notin {"ProcessFile", "VerifyCSVKeys"}
    /\ ~reimbursement
    /\ maxSplits # 0

\* The columns C14 says the check demands of a split batch.
SplitColumnsOfC14 ==
    {"description", "transaction date", "accounting vendor name",
     "total dollars", "transaction tax dollars"}
    \cup {LineItemKey(n, f) : n \in 1..maxSplits,
                              f \in {"gl code id", "description", "amount",
                                     "tax amount"}}

SingleColumns == {"transaction subtotal dollars", "gl code id"}

\* C14 as stated: a standard batch with splits passes the field check
\* exactly when its first record has the description, date, payee, total,
\* tax and per-slot columns; the subtotal and the single account id are not
\* demanded.
C14_SplitNeedsNoSubtotalNorAccount ==
    SplitBatchChecked =>
        (result # "malformed" <=> SplitColumnsOfC14 \subseteq DOMAIN transactions[1])

\* C14, amended: a standard batch with splits passes the field check
\* exactly when its first record has the description, date, payee, total,
\* tax and per-slot columns and also the subtotal and the single account
\* id columns; a split batch lacking only those two is rejected.
C14_SplitNeedsSubtotalAndAccount ==
    SplitBatchChecked =>
        (result # "malformed"
           <=> (SplitColumnsOfC14 \cup SingleColumns) \subseteq DOMAIN transactions[1])

\* A split batch lacking only the subtotal and the single account id,
\* rejected by the field check.
C14_Witness ==
    /\ SplitBatchChecked
    /\ SplitColumnsOfC14 \subseteq DOMAIN transactions[1]
    /\ SingleColumns \cap DOMAIN transactions[1] = {}
    /\ pc = "Done"
    /\ result = "malformed"
    /\ fetches = 0

\* The lines of request q that are against the tax-receivable account.
TaxLinesOf(q) ==
    {n \in DOMAIN q.lines : q.lines[n].account = "GST Accounts Receivable"}

\* The aggregate tax of record t.
AggregateTax(t) ==
    Float(t[IF reimbursement THEN "tax" ELSE "transaction tax dollars"]).val

\* C15: whenever a draft is appended for the record at hand, a Deposit has
\* no tax line, and a Disbursement or Bill has a tax line if and only if
\* the record's aggregate tax is not zero; when present there is exactly
\* one, it is the last line, after at least one expense line, it is against
\* the tax-receivable account with the fixed memo, and its amount is the
\* whole aggregate tax of the record.
C15_TaxLineIffTaxNonZero ==
    [][Len(requestMsgSet') = Len(requestMsgSet) + 1 =>
          LET t == transactions[i]
              q == requestMsgSet'[Len(requestMsgSet')]
              last == Len(q.lines)
          IN  IF q.type = "DepositAdd" THEN TaxLinesOf(q) = {}
              ELSE /\ q.type \in {"CheckAdd", "BillAdd"}
                   /\ TaxLinesOf(q) # {} <=> AggregateTax(t) # 0
                   /\ AggregateTax(t) # 0 =>
                         /\ TaxLinesOf(q) = {last}
                         /\ last >= 2
                         /\ q.lines[last] = Line("GST Accounts Receivable",
                                                 AggregateTax(t), "Half of the GST")
      ]_vars

\* A cheque built from a record with two filled split slots and a tax of
\* 5.00: two expense lines, then one tax line for the whole 5.00.
C15_Witness ==
    /\ ~reimbursement
    /\ \E k \in DOMAIN requestMsgSet :
          /\ requestMsgSet[k].type = "CheckAdd"
          /\ Len(requestMsgSet[k].lines) = 3
          /\ TaxLinesOf(requestMsgSet[k]) = {3}
          /\ requestMsgSet[k].lines[3].amount = 500
          /\ transactions[k]["transaction tax dollars"] = "5.00"

\* C16: in a reimbursement batch every draft appended is a Bill, against
\* Accounts Payable and for the record's requester, whatever the sign of
\* the record's total or subtotal, and its first line item is the record's
\* subtotal against the record's account id.
C16_ReimbursementAlwaysBill ==
    [][(reimbursement /\ Len(requestMsgSet') = Len(requestMsgSet) + 1) =>
          LET t == transactions[i]
              q == requestMsgSet'[Len(requestMsgSet')]
          IN  /\ q.type = "BillAdd"
              /\ q.account = "Accounts Payable"
              /\ q.payee = t["requester"]
              /\ Len(q.lines) >= 1
              /\ q.lines[1].account = t["gl code id"]
              /\ q.lines[1].amount = Float(t["subtotal"]).val
      ]_vars

\* A Bill built from a reimbursement whose total and subtotal are negative.
C16_Witness ==
    /\ reimbursement
    /\ \E k \in DOMAIN requestMsgSet :
          /\ requestMsgSet[k].type = "BillAdd"
          /\ requestMsgSet[k].lines[1].amount = -15000
          /\ \E n \in DOMAIN transactions :
                /\ transactions[n]["total"] = "-157.50"
                /\ transactions[n]["subtotal"] = "-150.00"

\* Record t of an export with split columns has no account id of its own
\* and every split slot blank.
ZeroLineItems(t) ==
    /\ maxSplits # 0
    /\ t["gl code id"] = ""
    /\ \A n \in 1..maxSplits :
          /\ t[LineItemKey(n, "gl code id")] = ""
          /\ t[LineItemKey(n, "amount")] = ""

SkipLogged(e) == e.msg = "Transaction has no detectable amounts or splits."

\* C17: every draft of the batch has at least one line item, and the pass
\* of the build loop over a record that yields zero line items (its date
\* and amounts converting) logs the record, adds no request, leaves the
\* count alone and goes on to the next record.
C17_ZeroLineItemsSkipped ==
    [][(pc = "ProcessTransactions" /\ i <= Len(transactions)) =>
          /\ \A k \in DOMAIN requestMsgSet' : Len(requestMsgSet'[k].lines) >= 1
          /\ (/\ ZeroLineItems(transactions[i])
              /\ DateMatches(transactions[i])
              /\ ~NonNumeric(transactions[i]))
                => /\ requestMsgSet' = requestMsgSet
                   /\ count' = count
                   /\ Len(errors') = Len(errors) + 1
                   /\ SkipLogged(errors'[Len(errors')])
                   /\ i' = i + 1
                   /\ pc' = "ProcessTransactions"
                   /\ result' = "running"
      ]_vars

\* A record with every slot blank was skipped, the record after it was
\* built, and the batch of one draft was submitted.
C17_Witness ==
    /\ Len(transactions) = 2
    /\ ZeroLineItems(transactions[1])
    /\ Len(errors) = 1
    /\ SkipLogged(errors[1])
    /\ Len(requestMsgSet) = 1
    /\ count = 1
    /\ submits = 1

\* C18 as stated: once validation has passed, every account id carried by
\* a line item of a draft, other than the tax-receivable account, is one of
\* the account ids of the snapshot.
C18_BuiltAccountsAreValid ==
    \A k \in DOMAIN requestMsgSet :
        \A n \in DOMAIN requestMsgSet[k].lines :
            \/ requestMsgSet[k].lines[n].account = "GST Accounts Receivable"
            \/ requestMsgSet[k].lines[n].account \in QBAccounts

\* Record t is one the build loop logs and skips: a reimbursement with an
\* amount that is not a number, a standard record with no line item.
SkippedRecord(t) ==
    IF reimbursement THEN NonNumeric(t) ELSE ZeroLineItems(t)

SkipsLogged ==
    {k \in DOMAIN errors :
        \/ SkipLogged(errors[k])
        \/ errors[k].msg = "Invalid number format in transaction."}

\* The indices of the records from n on that are not skipped, in order.
RECURSIVE NonSkippedFrom(_)
NonSkippedFrom(n) ==
    IF n > Len(transactions) THEN << >>
    ELSE (IF SkippedRecord(transactions[n]) THEN << >> ELSE <<n>>)
         \o NonSkippedFrom(n + 1)

\* Draft q carries the data of record t.
CarriesRecord(q, t) ==
    IF reimbursement
    THEN /\ q.payee = t["requester"]
         /\ q.memo = Strip(t["description"])
         /\ q.lines[1].account = t["gl code id"]
         /\ q.lines[1].amount = Float(t["subtotal"]).val
         /\ TaxLinesOf(q) # {} <=> AggregateTax(t) # 0
    ELSE /\ q.memo = t["description"]
         /\ q.type = "DepositAdd"
               <=> Float(t["transaction subtotal dollars"]).val < 0
         /\ q.type = "CheckAdd" =>
               /\ q.payee = t["accounting vendor name"]
               /\ TaxLinesOf(q) # {} <=> AggregateTax(t) # 0

\* C19: once the batch has been submitted, the transaction count equals
\* the number of drafts in the request, which equals the number of records
\* minus the records skipped (each logged once), and the k-th draft carries
\* the data of the k-th record that was not skipped.
C19_CountAndOrder ==
    submits = 1 =>
        LET kept == NonSkippedFrom(1)
        IN  /\ count = Len(requestMsgSet)
            /\ count = Len(transactions) - Cardinality(SkipsLogged)
            /\ count = Len(kept)
            /\ \A k \in DOMAIN requestMsgSet :
                  CarriesRecord(requestMsgSet[k], transactions[kept[k]])

\* A batch of two reimbursements submitted with the first one skipped: the
\* count is 1 and the only draft carries the second record.
C19_Witness ==
    /\ submits = 1
    /\ reimbursement
    /\ Len(transactions) = 2
    /\ SkippedRecord(transactions[1])
    /\ count = 1
    /\ Len(requestMsgSet) = 1
    /\ CarriesRecord(requestMsgSet[1], transactions[2])
====
